---- MODULE Spec2Model ----
(***************************************************************************)
(* A model of data-v9.py: the login / session guard / access policy of the *)
(* dashboard (authenticate, check_session, login_page, main_app and the    *)
(* script body under __main__), and the three report computations of       *)
(* show_analysis that manipulate data themselves: the purchase-behaviour   *)
(* diff, the revenue time trend and the frequent product combinations.     *)
(*                                                                         *)
(* One script run of the Streamlit program is one action.  st.rerun() ends *)
(* the current run and starts the next one at once, so a handler that      *)
(* calls it is modelled together with the run it triggers.                 *)
(***************************************************************************)
EXTENDS Integers, Sequences, FiniteSets, TLC

VARIABLES
    now,            \* time.time(), in seconds
    ticks,          \* number of clock advances so far
    session_state,  \* st.session_state: a dict, key -> value
    query_params,   \* st.query_params: a dict over {"auth", "user"}
    view,           \* what the last script run rendered
    messages,       \* the st.error messages of the last script run
    upload_offered, \* the last run rendered st.file_uploader
    dataset,        \* what show_analysis was called on in the last run
    lastValid,      \* history: time of the login / of the latest accepted request
    expired,        \* history: the stored token was refused for idleness
    phase,          \* history: anonymous / authenticated / loggedout
    last,           \* history: the last script run's final check_session call
    df,             \* show_analysis: the date-filtered table
    selected,       \* show_analysis: the widget choice of the view
    result          \* show_analysis: what the view displayed

vars == <<now, ticks, session_state, query_params, view, messages,
          upload_offered, dataset, lastValid, expired, phase,
          last, df, selected, result>>

sessionVars == <<now, ticks, session_state, query_params, view, messages,
                 upload_offered, dataset, lastValid, expired,
                 phase, last>>

analysisVars == <<df, selected, result>>

-----------------------------------------------------------------------------
(* Bounds of the model *)

MaxTicks == 3
MaxRows == 4
MaxDate == 3
MaxTrendRows == 3
MaxNameLen == 3
MaxOrders == 2

-----------------------------------------------------------------------------
(* Python dicts *)

None == <<"None", 0>>

EmptyDict == [k \in {} |-> None]

Put(d, k, v) == [x \in (DOMAIN d) \cup {k} |-> IF x = k THEN v ELSE d[x]]

Pop(d, k) == [x \in (DOMAIN d) \ {k} |-> d[x]]

Get(d, k, default) == IF k \in DOMAIN d THEN d[k] ELSE default

-----------------------------------------------------------------------------
(* Credential store and authenticator *)

IdleTimeout == 1800

users_db ==
    [u \in {"admin", "guest"} |->
        IF u = "admin"
        THEN [password_hash |-> "hash_admin", role |-> "admin"]
        ELSE [password_hash |-> "hash_guest", role |-> "guest"]]

\* The text-input values tried at the login form.  "" is an empty field;
\* "malformed" stands for a password the bcrypt routine may refuse with an
\* exception (one it cannot hash) instead of answering.
Usernames == {"", "admin", "guest", "nobody"}
Passwords == {"", "pw_admin", "pw_guest", "malformed"}

\* bcrypt.checkpw(password, hashed): the outcomes the library can produce.
checkpw(password, hashed) ==
    IF password = "malformed" THEN {"raise", "False"}
    ELSE IF (password = "pw_admin" /\ hashed = "hash_admin")
            \/ (password = "pw_guest" /\ hashed = "hash_guest")
         THEN {"True"}
         ELSE {"False"}

\* verify_password under one outcome of checkpw: its return value and the
\* st.error it shows.
verify_password(outcome) ==
    IF outcome = "raise"
    THEN [ret |-> FALSE, errors |-> {"verify_error"}, hashed |-> TRUE]
    ELSE [ret |-> (outcome = "True"), errors |-> {}, hashed |-> TRUE]

\* authenticate: the set of results it can produce for (username, password).
authenticate(username, password) ==
    IF username \in DOMAIN users_db
    THEN {verify_password(o) :
            o \in checkpw(password, users_db[username].password_hash)}
    ELSE {[ret |-> FALSE, errors |-> {}, hashed |-> FALSE]}

-----------------------------------------------------------------------------
(* Session guard *)

\* check_session with the timeout compared by <=.
check_session_inclusive(qp, ss, t) ==
    IF /\ "auth" \in DOMAIN qp /\ "user" \in DOMAIN qp
       /\ qp["user"] \in DOMAIN users_db
       /\ "auth_token" \in DOMAIN ss
       /\ ss["auth_token"] = qp["auth"]
       /\ t - Get(ss, "last_activity", 0) <= IdleTimeout
    THEN [ok |-> TRUE, ss |-> Put(ss, "last_activity", t)]
    ELSE [ok |-> FALSE, ss |-> ss]

\* check_session refreshing last_activity before it tests the timeout.
check_session_renewing(qp, ss, t) ==
    IF /\ "auth" \in DOMAIN qp /\ "user" \in DOMAIN qp
       /\ qp["user"] \in DOMAIN users_db
       /\ "auth_token" \in DOMAIN ss
       /\ ss["auth_token"] = qp["auth"]
    THEN [ok |-> t - Get(ss, "last_activity", 0) < IdleTimeout,
          ss |-> Put(ss, "last_activity", t)]
    ELSE [ok |-> FALSE, ss |-> ss]

\* check_session: the answer and the session state it leaves.
check_session(qp, ss, t) ==
    IF /\ "auth" \in DOMAIN qp /\ "user" \in DOMAIN qp
       /\ qp["user"] \in DOMAIN users_db
       /\ "auth_token" \in DOMAIN ss
       /\ ss["auth_token"] = qp["auth"]
       /\ t - Get(ss, "last_activity", 0) < IdleTimeout
    THEN [ok |-> TRUE, ss |-> Put(ss, "last_activity", t)]
    ELSE [ok |-> FALSE, ss |-> ss]

\* The token login_page generates.
auth_token(username, t) == <<username, t>>

\* login_page with the form submitted: the session state, the URL
\* parameters, the errors shown, and whether st.rerun() was called.
login_page(ss, qp, t, username, password, a) ==
    IF username = "" \/ password = ""
    THEN [ss |-> ss, qp |-> qp, errors |-> {"missing_fields"}, rerun |-> FALSE]
    ELSE IF a.ret
    THEN [ss |-> Put(Put(Put(Put(Put(ss,
                    "authenticated", TRUE),
                    "username", username),
                    "role", users_db[username].role),
                    "last_activity", t),
                    "auth_token", auth_token(username, t)),
          qp |-> Put(Put(qp, "auth", auth_token(username, t)), "user", username),
          errors |-> a.errors,
          rerun |-> TRUE]
    ELSE [ss |-> ss, qp |-> qp,
          errors |-> a.errors \cup {"bad_credentials"}, rerun |-> FALSE]

\* main_app offering the uploader to every role.
main_app_open(ss, logout, file) ==
    IF "username" \notin DOMAIN ss
    THEN [ss |-> ss, view |-> "exception", upload |-> FALSE,
          dataset |-> "none", rerun |-> FALSE]
    ELSE IF logout
    THEN [ss |-> Pop(Pop(Put(ss, "authenticated", FALSE), "username"), "role"),
          view |-> "main", upload |-> FALSE, dataset |-> "none", rerun |-> TRUE]
    ELSE IF "role" \notin DOMAIN ss
    THEN [ss |-> ss, view |-> "exception", upload |-> FALSE,
          dataset |-> "none", rerun |-> FALSE]
    ELSE [ss |-> ss, view |-> "main", upload |-> TRUE,
          dataset |-> IF file # "none" THEN "uploaded"
                      ELSE IF ss["role"] = "guest" THEN "example"
                      ELSE "none",
          rerun |-> FALSE]

\* main_app: logout is the sidebar button, file the upload the user made.
main_app(ss, logout, file) ==
    IF "username" \notin DOMAIN ss
    THEN [ss |-> ss, view |-> "exception", upload |-> FALSE,
          dataset |-> "none", rerun |-> FALSE]
    ELSE IF logout
    THEN [ss |-> Pop(Pop(Put(ss, "authenticated", FALSE), "username"), "role"),
          view |-> "main", upload |-> FALSE, dataset |-> "none", rerun |-> TRUE]
    ELSE IF "role" \notin DOMAIN ss
    THEN [ss |-> ss, view |-> "exception", upload |-> FALSE,
          dataset |-> "none", rerun |-> FALSE]
    ELSE LET up == ss["role"] \in {"admin", "analyst"}
             uploaded_file == IF up THEN file ELSE "none"
         IN  [ss |-> ss, view |-> "main", upload |-> up,
              dataset |-> IF uploaded_file # "none" THEN "uploaded"
                          ELSE IF ss["role"] = "guest" THEN "example"
                          ELSE "none",
              rerun |-> FALSE]

\* The head of the script body: the "authenticated" default, then
\* check_session.
script_head(qp, ss, t) ==
    check_session(qp,
                  IF "authenticated" \in DOMAIN ss THEN ss
                  ELSE Put(ss, "authenticated", FALSE),
                  t)

\* The else branch of the script body, before login_page.
drop_authenticated(ss) == Pop(ss, "authenticated")

-----------------------------------------------------------------------------
(* One script run *)

\* The presented pair is the stored token together with a known username.
Matched(qp, ss) ==
    /\ "auth" \in DOMAIN qp /\ "user" \in DOMAIN qp
    /\ qp["user"] \in DOMAIN users_db
    /\ "auth_token" \in DOMAIN ss
    /\ ss["auth_token"] = qp["auth"]

\* What the history variable "last" records of a check_session call:
\* whether the stored token was presented with a known username, whether
\* less than the idle timeout had passed since the last valid activity,
\* and the answer.
Checked(qp, ss, t, lv, ok) ==
    [matched  |-> Matched(qp, ss),
     fresh    |-> t - lv < IdleTimeout,
     accepted |-> ok]

NoAttempt == [submitted |-> FALSE, blank |-> FALSE, known |-> FALSE,
              ret |-> FALSE, hashed |-> FALSE]

\* A script run in which no button is pressed: lines 466-499 with
\* main_app's logout button and the login form left alone.
PlainRun(qp, ss, t, file, lv) ==
    LET c == script_head(qp, ss, t)
        chk == Checked(qp, ss, t, lv, c.ok)
    IN  IF c.ok
        THEN LET m == main_app(c.ss, FALSE, file)
             IN  [ss |-> m.ss, qp |-> qp, view |-> m.view, messages |-> {},
                  upload |-> m.upload, dataset |-> m.dataset, chk |-> chk,
                  lv |-> t]
        ELSE [ss |-> drop_authenticated(c.ss), qp |-> qp, view |-> "login",
              messages |-> {}, upload |-> FALSE, dataset |-> "none",
              chk |-> chk, lv |-> lv]

\* A script run in which the sidebar's logout button is pressed, with the
\* run st.rerun() starts.
LogoutRun(qp, ss, t, lv) ==
    LET c == script_head(qp, ss, t)
    IN  IF c.ok
        THEN LET m == main_app(c.ss, TRUE, "none")
             IN  IF m.rerun
                 THEN [out |-> PlainRun(qp, m.ss, t, "none", t), done |-> TRUE]
                 ELSE [out |-> [ss |-> m.ss, qp |-> qp, view |-> m.view,
                                messages |-> {}, upload |-> m.upload,
                                dataset |-> m.dataset,
                                chk |-> Checked(qp, ss, t, lv, TRUE),
                                lv |-> t],
                       done |-> FALSE]
        ELSE [out |-> PlainRun(qp, ss, t, "none", lv), done |-> FALSE]

\* A script run in which the login form is submitted, with the run
\* st.rerun() starts after a successful login.
LoginRun(qp, ss, t, lv, username, password, a) ==
    LET c == script_head(qp, ss, t)
    IN  IF c.ok
        THEN [out |-> PlainRun(qp, ss, t, "none", lv), done |-> FALSE,
              submitted |-> FALSE]
        ELSE LET lp == login_page(drop_authenticated(c.ss), qp, t,
                                  username, password, a)
             IN  IF lp.rerun
                 THEN [out |-> PlainRun(lp.qp, lp.ss, t, "none", t),
                       done |-> TRUE, submitted |-> TRUE]
                 ELSE [out |-> [ss |-> lp.ss, qp |-> lp.qp, view |-> "login",
                                messages |-> lp.errors, upload |-> FALSE,
                                dataset |-> "none",
                                chk |-> Checked(qp, ss, t, lv, FALSE),
                                lv |-> lv],
                       done |-> FALSE, submitted |-> TRUE]

\* The state a script run leaves.
Render(out, op, att) ==
    /\ session_state' = out.ss
    /\ query_params' = out.qp
    /\ view' = out.view
    /\ messages' = out.messages
    /\ upload_offered' = out.upload
    /\ dataset' = out.dataset
    /\ lastValid' = out.lv
    /\ last' = [op |-> op, chk |-> out.chk, attempt |-> att]

\* The stored token was presented with a known username and refused
\* because the idle timeout had passed.
Refused(out) == out.chk.matched /\ ~out.chk.fresh /\ ~out.chk.accepted

-----------------------------------------------------------------------------
(* The session specification *)

Forged == <<"forged", 0>>

\* The auth values a browser can present: the token of the session, the one
\* in the address bar, or a made-up one.
PresentableAuth ==
    {Forged}
    \cup (IF "auth_token" \in DOMAIN session_state
          THEN {session_state["auth_token"]} ELSE {})
    \cup (IF "auth" \in DOMAIN query_params
          THEN {query_params["auth"]} ELSE {})

\* The URL parameters a browser can present: none, an auth value alone, or
\* an auth value with a user value.
Presentable ==
    {EmptyDict, Put(EmptyDict, "auth", Forged)}
    \cup {Put(Put(EmptyDict, "auth", a), "user", u) :
            a \in PresentableAuth, u \in {"admin", "guest", "nobody"}}

Deltas == {IdleTimeout - 1, IdleTimeout}

InitAnalysisIdle ==
    /\ df = <<>>
    /\ selected = "none"
    /\ result = "none"

InitSessionIdle ==
    /\ now = 0
    /\ ticks = 0
    /\ session_state = EmptyDict
    /\ query_params = EmptyDict
    /\ view = "none"
    /\ messages = {}
    /\ upload_offered = FALSE
    /\ dataset = "none"
    /\ lastValid = 0
    /\ expired = FALSE
    /\ phase = "anonymous"
    /\ last = [op |-> "none", chk |-> Checked(EmptyDict, EmptyDict, 0, 0, FALSE),
               attempt |-> NoAttempt]

Init == InitSessionIdle /\ InitAnalysisIdle

\* The clock advances between requests.
Tick ==
    /\ ticks < MaxTicks
    /\ \E d \in Deltas : now' = now + d
    /\ ticks' = ticks + 1
    /\ UNCHANGED <<session_state, query_params, view, messages, upload_offered,
                   dataset, lastValid, expired, phase, last>>
    /\ UNCHANGED analysisVars

\* The browser loads the page with some URL parameters.
Request ==
    /\ \E qp \in Presentable :
         LET out == PlainRun(qp, session_state, now, "none", lastValid)
         IN  /\ Render(out, "request", NoAttempt)
             /\ expired' = (expired \/ Refused(out))
    /\ UNCHANGED <<now, ticks, phase>>
    /\ UNCHANGED analysisVars

\* The user uploads a file in the uploader main_app offered.
Upload ==
    /\ view = "main" /\ upload_offered
    /\ LET out == PlainRun(query_params, session_state, now, "file", lastValid)
       IN  /\ Render(out, "request", NoAttempt)
           /\ expired' = (expired \/ Refused(out))
    /\ UNCHANGED <<now, ticks, phase>>
    /\ UNCHANGED analysisVars

\* The user presses the logout button main_app rendered.
Logout ==
    /\ view = "main"
    /\ LET r == LogoutRun(query_params, session_state, now, lastValid)
       IN  /\ Render(r.out, IF r.done THEN "logout" ELSE "request", NoAttempt)
           /\ expired' = (expired \/ Refused(r.out))
           /\ phase' = IF r.done THEN "loggedout" ELSE phase
    /\ UNCHANGED <<now, ticks>>
    /\ UNCHANGED analysisVars

\* The user submits the login form login_page rendered.
LoginSubmit ==
    /\ view = "login"
    /\ \E username \in Usernames, password \in Passwords :
       \E a \in (IF username = "" \/ password = ""
                 THEN {[ret |-> FALSE, errors |-> {}, hashed |-> FALSE]}
                 ELSE authenticate(username, password)) :
         LET r == LoginRun(query_params, session_state, now, lastValid,
                           username, password, a)
         IN  /\ Render(r.out,
                       IF r.submitted THEN "login" ELSE "request",
                       IF r.submitted
                       THEN [submitted |-> TRUE,
                             blank |-> (username = "" \/ password = ""),
                             known |-> username \in DOMAIN users_db,
                             ret |-> a.ret, hashed |-> a.hashed]
                       ELSE NoAttempt)
             /\ phase' = IF r.done THEN "authenticated" ELSE phase
             /\ expired' = IF r.done THEN FALSE
                           ELSE (expired \/ Refused(r.out))
    /\ UNCHANGED <<now, ticks>>
    /\ UNCHANGED analysisVars

Next == Tick \/ Request \/ Upload \/ Logout \/ LoginSubmit

Spec == Init /\ [][Next]_vars

-----------------------------------------------------------------------------
(* Claims about the session guard, checked under Spec *)

\* C1: after logout the role, username and token are gone from the session
\* state, and every script run until the next successful login - the run
\* st.rerun() starts included - is refused by check_session and shows the
\* login view.
LogoutInvalidates ==
    phase = "loggedout" =>
        /\ {"role", "username", "auth_token"} \cap DOMAIN session_state = {}
        /\ ~last.chk.accepted
        /\ view = "login"

\* C2: a request presenting the stored token (with a known username) is
\* accepted exactly when less than IdleTimeout seconds have passed since the
\* login or the latest accepted request; a refused one shows the login view;
\* last_activity is the time of the login or of the latest accepted request.
SlidingIdleTimeout ==
    /\ last.chk.matched => (last.chk.accepted <=> last.chk.fresh)
    /\ (last.chk.matched /\ ~last.chk.accepted) => view = "login"
    /\ "last_activity" \in DOMAIN session_state
         => session_state["last_activity"] = lastValid

\* C2 witness: a request accepted IdleTimeout or more after the login,
\* because an accepted request in between moved last_activity.
SlidingWitness ==
    /\ last.op = "request" /\ last.chk.matched /\ last.chk.accepted
    /\ "auth_token" \in DOMAIN session_state
    /\ now - session_state["auth_token"][2] >= IdleTimeout
    /\ lastValid = now

\* The same token refused at exactly IdleTimeout seconds of idleness.
BoundaryRefusal ==
    /\ last.op = "request" /\ last.chk.matched /\ ~last.chk.accepted
    /\ now - lastValid = IdleTimeout

\* C3: an accepted pair has a known user, and its auth value is the stored
\* token, which was issued at the login of that very user.
TokenBoundToUser ==
    last.chk.accepted =>
        /\ "auth" \in DOMAIN query_params /\ "user" \in DOMAIN query_params
        /\ query_params["user"] \in DOMAIN users_db
        /\ "auth_token" \in DOMAIN session_state
        /\ query_params["auth"] = session_state["auth_token"]
        /\ query_params["user"] = session_state["auth_token"][1]

\* C4: once the stored token has been refused for idleness, every request
\* presenting it before the next successful login is refused, shows the
\* login view without any message, and leaves last_activity and the stored
\* token as they were.
NoSilentRenewal ==
    [][ (last'.op = "request" /\ expired'
         /\ Matched(query_params', session_state))
        => /\ ~last'.chk.accepted
           /\ view' = "login"
           /\ messages' = {}
           /\ session_state'["last_activity"] = session_state["last_activity"]
           /\ session_state'["auth_token"] = session_state["auth_token"] ]_vars

\* C4 witness: the stored token presented and refused after the timeout.
ExpiredWitness ==
    /\ expired /\ last.op = "request"
    /\ last.chk.matched /\ ~last.chk.accepted
    /\ now - lastValid > IdleTimeout
    /\ view = "login" /\ messages = {}

\* The messages a failed login of (username, password) can show.
FailureMessages(username, password) ==
    {login_page(EmptyDict, EmptyDict, 0, username, password, a).errors :
        a \in {x \in authenticate(username, password) : ~x.ret}}

\* C5: a failed login with both fields filled shows what a failed login of
\* an unknown username shows, and an unknown username is refused without
\* the hash comparison.
FailedLoginUniform ==
    (last.attempt.submitted /\ ~last.attempt.blank /\ ~last.attempt.ret) =>
        /\ messages \in FailureMessages("nobody", "pw_admin")
        /\ ~last.attempt.known => ~last.attempt.hashed

\* C6: in an accepted run the uploader is offered exactly to the roles
\* admin and analyst; a guest is shown the demonstration dataset; the role
\* of the session is the role users_db records for its username.
AccessPolicy ==
    /\ last.chk.accepted =>
         (upload_offered <=>
            Get(session_state, "role", "none") \in {"admin", "analyst"})
    /\ ~last.chk.accepted => ~upload_offered
    /\ (last.chk.accepted /\ Get(session_state, "role", "none") = "guest")
         => (dataset = "example" /\ view = "main")
    /\ "role" \in DOMAIN session_state =>
         /\ "username" \in DOMAIN session_state
         /\ session_state["username"] \in DOMAIN users_db
         /\ session_state["role"] = users_db[session_state["username"]].role

\* C6 witness: a guest in the main view, on the demonstration dataset.
GuestWitness ==
    /\ last.chk.accepted /\ view = "main"
    /\ Get(session_state, "role", "none") = "guest"
    /\ dataset = "example" /\ ~upload_offered

\* An administrator in the main view with the uploader.
AdminUploadWitness ==
    /\ view = "main" /\ upload_offered /\ dataset = "uploaded"
    /\ Get(session_state, "role", "none") = "admin"

\* C10: whenever check_session accepted the run, the session state holds
\* the username and the role main_app reads.
AcceptedHasIdentity ==
    last.chk.accepted => {"username", "role"} \subseteq DOMAIN session_state

-----------------------------------------------------------------------------
(* show_analysis: purchase-behaviour diff *)

\* The sequence of the elements of S in the order before, a set of pairs
\* <<a, b>> that says a may stand ahead of b.
SortedSeq(S, before) ==
    CHOOSE s \in [1..Cardinality(S) -> S] :
        \A i, j \in DOMAIN s :
            i < j => (s[i] # s[j] /\ <<s[i], s[j]>> \in before)

CustomerIds == {1, 2}
CustomerNames == {"A", "B"}
Products == {"p", "q", "r"}
Dates == 1..MaxDate

\* Sale records: every customer id carries one customer name; two ids may
\* carry the same name.
RECURSIVE SubsetsUpTo(_, _)
SubsetsUpTo(S, n) ==
    IF n = 0 THEN {{}}
    ELSE LET smaller == SubsetsUpTo(S, n - 1)
         IN  smaller \cup {T \cup {x} : T \in smaller, x \in S}

SaleTables(maxRows) ==
    {{[id |-> r[1], name |-> nameOf[r[1]], date |-> r[2], product |-> r[3]] :
        r \in rows} :
        nameOf \in [CustomerIds -> CustomerNames],
        rows \in SubsetsUpTo(CustomerIds \X Dates \X Products, maxRows) \ {{}}}

\* customer_purchases: one row for each (customer id, name, purchase date)
\* of the selected customer, sorted by that key, holding the products of the
\* purchase; reset_index labels the rows 0, 1, 2, ...
customer_purchases(table, customer) ==
    LET customer_data == {r \in table : r.name = customer}
        keys == {<<r.id, r.date>> : r \in customer_data}
        sorted == SortedSeq(keys,
                    {k \in keys \X keys :
                        \/ k[1][1] < k[2][1]
                        \/ (k[1][1] = k[2][1] /\ k[1][2] < k[2][2])})
    IN  [p \in DOMAIN sorted |->
            [label |-> p - 1,
             id |-> sorted[p][1],
             date |-> sorted[p][2],
             products |-> {r.product : r \in
                            {x \in customer_data :
                                x.id = sorted[p][1] /\ x.date = sorted[p][2]}}]]

\* compare_products on one customer id's rows (a sequence sorted by date,
\* each row keeping its label): group.at[i, ...] looks a row up by label,
\* for i = 1 .. len(group) - 1, and raises KeyError when no row of the group
\* carries the label.  Rows that got a comparison are returned; the others
\* keep None and are filtered out by notna().
compare_products(group) ==
    LET labels == {group[p].label : p \in DOMAIN group}
        Row(l) == group[CHOOSE p \in DOMAIN group : group[p].label = l]
        steps == 1..(Len(group) - 1)
    IN  IF \E i \in steps : i \notin labels \/ (i - 1) \notin labels
        THEN [error |-> TRUE, rows |-> <<>>]
        ELSE [error |-> FALSE,
              rows |-> [i \in steps |->
                          [label |-> i,
                           date |-> Row(i).date,
                           products |-> Row(i).products,
                           previous |-> Row(i - 1).products,
                           added |-> Row(i).products \ Row(i - 1).products,
                           dropped |-> Row(i - 1).products \ Row(i).products,
                           unchanged |-> Row(i).products
                                           \cap Row(i - 1).products]]]

\* The rows of seq whose customer id is in ids, in order.
RECURSIVE SelectRows(_, _)
SelectRows(seq, ids) ==
    IF seq = <<>> THEN <<>>
    ELSE IF Head(seq).id \in ids
         THEN <<Head(seq)>> \o SelectRows(Tail(seq), ids)
         ELSE SelectRows(Tail(seq), ids)

\* The purchase-behaviour view, lines 248-316: groupby("客户ID").apply of
\* compare_products, the notna() filter, and the table or the warning.
purchase_behaviour(table, customer) ==
    LET purchases == customer_purchases(table, customer)
        ids == {purchases[p].id : p \in DOMAIN purchases}
        cmp == [i \in ids |-> compare_products(SelectRows(purchases, {i}))]
        idSeq == SortedSeq(ids, {k \in ids \X ids : k[1] < k[2]})
        Concat[k \in 0..Len(idSeq)] ==
            IF k = 0 THEN <<>> ELSE Concat[k - 1] \o cmp[idSeq[k]].rows
        final_result == Concat[Len(idSeq)]
    IN  IF \E i \in ids : cmp[i].error
        THEN [status |-> "KeyError", rows |-> <<>>, warning |-> FALSE]
        ELSE [status |-> "ok",
              rows |-> [k \in DOMAIN final_result |->
                          [date |-> final_result[k].date,
                           products |-> final_result[k].products,
                           previous |-> final_result[k].previous,
                           added |-> final_result[k].added,
                           dropped |-> final_result[k].dropped,
                           unchanged |-> final_result[k].unchanged]],
              warning |-> (final_result = <<>>)]

InitDiff ==
    /\ InitSessionIdle
    /\ df \in SaleTables(MaxRows)
    /\ selected = "none"
    /\ result = "none"

\* The user picks a customer name in the selectbox of the view.
PurchaseBehaviour ==
    /\ \E customer \in {r.name : r \in df} :
         /\ selected' = customer
         /\ result' = purchase_behaviour(df, customer)
    /\ UNCHANGED df
    /\ UNCHANGED sessionVars

SpecDiff == InitDiff /\ [][PurchaseBehaviour]_vars

\* The orders of a customer name by distinct purchase date, and the report
\* the claim describes for them.
OrderDates(table, customer) ==
    LET ds == {r.date : r \in {x \in table : x.name = customer}}
    IN  SortedSeq(ds, {k \in ds \X ds : k[1] < k[2]})

OrderProducts(table, customer, d) ==
    {r.product : r \in {x \in table : x.name = customer /\ x.date = d}}

ExpectedReport(table, customer) ==
    LET ds == OrderDates(table, customer)
        O(k) == OrderProducts(table, customer, ds[k])
    IN  [k \in 1..(Len(ds) - 1) |->
            [date |-> ds[k + 1],
             products |-> O(k + 1),
             previous |-> O(k),
             added |-> O(k + 1) \ O(k),
             dropped |-> O(k) \ O(k + 1),
             unchanged |-> O(k + 1) \cap O(k)]]

\* C7: for every selectable customer name the view ends without an error,
\* its report is the n-1 comparison rows of the customer's n orders, and it
\* warns of too little history exactly when there is no row.
PurchaseDiffReport ==
    selected # "none" =>
        /\ result.status = "ok"
        /\ result.rows = ExpectedReport(df, selected)
        /\ result.warning <=> (Len(OrderDates(df, selected)) = 1)

\* The same for customer names carried by a single customer id.
PurchaseDiffReportSingleId ==
    (selected # "none"
     /\ Cardinality({r.id : r \in {x \in df : x.name = selected}}) = 1) =>
        /\ result.status = "ok"
        /\ result.rows = ExpectedReport(df, selected)
        /\ result.warning <=> (Len(OrderDates(df, selected)) = 1)

-----------------------------------------------------------------------------
(* load_data and the revenue time trend of the overview *)

\* Column names.  The spreadsheet's columns are written in English here:
\* "customer_id" is 客户ID, "purchase_date" is 购买日期, "total" is 总价.  The
\* columns load_data derives keep their own names in transliteration:
\* "nianyue" is 年月, "nian" is 年, "yue" is 月, "zhou" is 周, "xingqi" is 星期.
\* "year", "month", "week" and "quarter" are the names the overview uses.
RequiredColumns == {"customer_id", "purchase_date", "total"}
DerivedColumns == {"nianyue", "nian", "yue", "zhou", "xingqi"}
EnglishColumns == {"year", "month", "week"}

\* Calendar arithmetic for the years 2024 and 2025; a date is <<y, m, d>>.
IsLeap(y) == (y % 4 = 0 /\ y % 100 # 0) \/ y % 400 = 0
DaysInMonth(y, m) ==
    IF m = 2 THEN (IF IsLeap(y) THEN 29 ELSE 28)
    ELSE IF m \in {4, 6, 9, 11} THEN 30 ELSE 31
RECURSIVE DaysBeforeMonth(_, _)
DaysBeforeMonth(y, m) ==
    IF m = 1 THEN 0 ELSE DaysBeforeMonth(y, m - 1) + DaysInMonth(y, m - 1)
DayOfYear(date) == DaysBeforeMonth(date[1], date[2]) + date[3]
RECURSIVE DaysBeforeYear(_)
DaysBeforeYear(y) ==
    IF y <= 2024 THEN 0
    ELSE DaysBeforeYear(y - 1) + (IF IsLeap(y - 1) THEN 366 ELSE 365)
\* Monday = 1 ... Sunday = 7; 1 January 2024 is a Monday.
Weekday(date) == ((DaysBeforeYear(date[1]) + DayOfYear(date) - 1) % 7) + 1
WeekdayOfJan1(y) == (DaysBeforeYear(y) % 7) + 1
WeeksInYear(y) ==
    IF WeekdayOfJan1(y) = 4 \/ (IsLeap(y) /\ WeekdayOfJan1(y) = 3)
    THEN 53 ELSE 52
\* dt.isocalendar().week
IsoWeek(date) ==
    LET w == (DayOfYear(date) - Weekday(date) + 10) \div 7
    IN  IF w < 1 THEN 52 + (IF WeekdayOfJan1(date[1]) = 5
                               \/ (WeekdayOfJan1(date[1]) = 6
                                   /\ IsLeap(date[1] - 1))
                            THEN 1 ELSE 0)
        ELSE IF w > WeeksInYear(date[1]) THEN 1
        ELSE w
\* dt.quarter
Quarter(date) == ((date[2] - 1) \div 3) + 1

DateBefore(a, b) ==
    \/ a[1] < b[1]
    \/ (a[1] = b[1] /\ a[2] < b[2])
    \/ (a[1] = b[1] /\ a[2] = b[2] /\ a[3] < b[3])

TrendDates == {<<2024, 12, 29>>, <<2024, 12, 30>>, <<2025, 3, 31>>,
               <<2025, 4, 1>>}
Totals == {1, 2}

\* A row of the spreadsheet; english tells whether the file itself brings
\* year / month / week columns.
FileRow(id, date, total, english) ==
    LET base == Put(Put(Put(EmptyDict, "customer_id", id),
                        "purchase_date", date), "total", total)
    IN  IF english
        THEN Put(Put(Put(base, "year", date[1]), "month", date[2]),
                 "week", IsoWeek(date))
        ELSE base

Files(maxRows) ==
    {[columns |-> RequiredColumns \cup (IF e THEN EnglishColumns ELSE {}),
      rows |-> [i \in DOMAIN rs |-> FileRow(rs[i][1], rs[i][2], rs[i][3], e)]] :
        e \in BOOLEAN,
        rs \in UNION {[1..n -> CustomerIds \X TrendDates \X Totals] :
                        n \in 1..maxRows}}

\* sort_values(['客户ID', '购买日期']): insertion of each row after the rows
\* that are not behind it.
RowBefore(a, b) ==
    \/ a["customer_id"] < b["customer_id"]
    \/ (a["customer_id"] = b["customer_id"]
        /\ DateBefore(a["purchase_date"], b["purchase_date"]))

RECURSIVE Insert(_, _)
Insert(sorted, row) ==
    IF sorted = <<>> THEN <<row>>
    ELSE IF RowBefore(row, Head(sorted)) THEN <<row>> \o sorted
    ELSE <<Head(sorted)>> \o Insert(Tail(sorted), row)

RECURSIVE sort_values(_)
sort_values(rows) ==
    IF rows = <<>> THEN <<>>
    ELSE Insert(sort_values(SubSeq(rows, 1, Len(rows) - 1)), rows[Len(rows)])

\* load_data: the derived columns, then the sort.
load_data(file) ==
    [columns |-> file.columns \cup DerivedColumns,
     rows |-> sort_values(
        [i \in DOMAIN file.rows |->
            LET r == file.rows[i]
                d == r["purchase_date"]
            IN  Put(Put(Put(Put(Put(r,
                    "nianyue", <<d[1], d[2]>>),
                    "nian", d[1]),
                    "yue", d[2]),
                    "zhou", IsoWeek(d)),
                    "xingqi", Weekday(d))])]

RECURSIVE SumTotals(_)
SumTotals(rows) ==
    IF rows = <<>> THEN 0 ELSE Head(rows)["total"] + SumTotals(Tail(rows))

\* The values a row has in the columns by, a sequence of column names.
KeyOf(row, by) == [k \in DOMAIN by |-> row[by[k]]]

RECURSIVE FilterKey(_, _, _)
FilterKey(rows, by, key) ==
    IF rows = <<>> THEN <<>>
    ELSE IF KeyOf(Head(rows), by) = key
         THEN <<Head(rows)>> \o FilterKey(Tail(rows), by, key)
         ELSE FilterKey(Tail(rows), by, key)

\* groupby(by)['总价'].sum(): KeyError when a column named in by is not in
\* the table, else the sum of total for each key.
groupby_sum(table, by) ==
    IF \E k \in DOMAIN by : by[k] \notin table.columns
    THEN [status |-> "KeyError", series |-> EmptyDict]
    ELSE [status |-> "ok",
          series |-> [key \in {KeyOf(table.rows[i], by) : i \in DOMAIN table.rows}
                        |-> SumTotals(FilterKey(table.rows, by, key))]]

Granularities == {"day", "week", "month", "quarter", "year"}

\* time_df['quarter'] = time_df['购买日期'].dt.quarter on a copy of df.
with_quarter(table) ==
    [columns |-> table.columns \cup {"quarter"},
     rows |-> [i \in DOMAIN table.rows |->
                 Put(table.rows[i], "quarter",
                     Quarter(table.rows[i]["purchase_date"]))]]

\* The time trend of the overview, lines 209-226.
time_trend(table, time_group) ==
    IF time_group = "day" THEN groupby_sum(table, <<"purchase_date">>)
    ELSE IF time_group = "week" THEN groupby_sum(table, <<"year", "week">>)
    ELSE IF time_group = "month" THEN groupby_sum(table, <<"year", "month">>)
    ELSE IF time_group = "quarter"
    THEN groupby_sum(with_quarter(table), <<"year", "quarter">>)
    ELSE groupby_sum(table, <<"year">>)

\* total_sales of the overview.
total_sales(table) == SumTotals(table.rows)

InitTrend ==
    /\ InitSessionIdle
    /\ \E file \in Files(MaxTrendRows) : df = load_data(file)
    /\ selected = "none"
    /\ result = "none"

\* The user picks a granularity in the radio of the overview.
TimeTrend ==
    /\ \E time_group \in Granularities :
         /\ selected' = time_group
         /\ result' = time_trend(df, time_group)
    /\ UNCHANGED df
    /\ UNCHANGED sessionVars

SpecTrend == InitTrend /\ [][TimeTrend]_vars

\* The grouping key the overview is to use for a purchase date.
BucketKey(time_group, date) ==
    IF time_group = "day" THEN <<date>>
    ELSE IF time_group = "week" THEN <<date[1], IsoWeek(date)>>
    ELSE IF time_group = "month" THEN <<date[1], date[2]>>
    ELSE IF time_group = "quarter" THEN <<date[1], Quarter(date)>>
    ELSE <<date[1]>>

RECURSIVE SumSeries(_, _)
SumSeries(series, keys) ==
    IF keys = {} THEN 0
    ELSE LET k == CHOOSE x \in keys : TRUE
         IN  series[k] + SumSeries(series, keys \ {k})

\* C8: whatever the granularity, the overview computed on load_data's table
\* yields a series, its buckets are the keys of the rows' dates, and the
\* bucket revenues add up to the total revenue.
RevenueSeries ==
    selected # "none" =>
        /\ result.status = "ok"
        /\ DOMAIN result.series =
             {BucketKey(selected, df.rows[i]["purchase_date"]) :
                i \in DOMAIN df.rows}
        /\ SumSeries(result.series, DOMAIN result.series) = total_sales(df)

\* The same for the tables whose spreadsheet brought year / month / week
\* columns of its own, and for the day granularity.
RevenueSeriesWhenColumnsExist ==
    (selected # "none"
     /\ (selected = "day" \/ EnglishColumns \subseteq df.columns)) =>
        /\ result.status = "ok"
        /\ DOMAIN result.series =
             {BucketKey(selected, df.rows[i]["purchase_date"]) :
                i \in DOMAIN df.rows}
        /\ SumSeries(result.series, DOMAIN result.series) = total_sales(df)

-----------------------------------------------------------------------------
(* Frequent product combinations *)

\* A product name is a string: a sequence of characters.
Chars == {"a", ",", " "}
ProductNames == UNION {[1..n -> Chars] : n \in 1..MaxNameLen}

Separator == <<",", " ">>

\* s starts with the string pre.
StartsWith(s, pre) ==
    Len(s) >= Len(pre) /\ SubSeq(s, 1, Len(pre)) = pre

\* str.join: the strings of seq with sep between them.
RECURSIVE Join(_, _)
Join(seq, sep) ==
    IF seq = <<>> THEN <<>>
    ELSE IF Len(seq) = 1 THEN seq[1]
    ELSE seq[1] \o sep \o Join(Tail(seq), sep)

\* str.split(sep): the pieces between the occurrences of sep, found from
\* the left and not overlapping.
RECURSIVE SplitFrom(_, _, _)
SplitFrom(s, sep, piece) ==
    IF s = <<>> THEN <<piece>>
    ELSE IF StartsWith(s, sep)
         THEN <<piece>> \o SplitFrom(SubSeq(s, Len(sep) + 1, Len(s)), sep, <<>>)
         ELSE SplitFrom(Tail(s), sep, Append(piece, Head(s)))

Split(s, sep) == SplitFrom(s, sep, <<>>)

\* The number of orders that contain every product of the itemset.
SupportCount(orders, itemset) ==
    Cardinality({i \in DOMAIN orders : itemset \subseteq orders[i]})

\* apriori(product_df, min_support, use_colnames=True): the itemsets whose
\* support (the share of the orders containing them) is at least
\* min_support, given in hundredths.
apriori(orders, min_support) ==
    {itemset \in SUBSET (UNION {orders[i] : i \in DOMAIN orders}) :
        /\ itemset # {}
        /\ SupportCount(orders, itemset) * 100 >= min_support * Len(orders)}

\* list(x) of a frozenset: its elements in the order iteration gives them,
\* here the order they have in the sequence order.
RECURSIVE ListOf(_, _)
ListOf(itemset, order) ==
    IF order = <<>> THEN <<>>
    ELSE IF Head(order) \in itemset
         THEN <<Head(order)>> \o ListOf(itemset, Tail(order))
         ELSE ListOf(itemset, Tail(order))

\* One row of frequent_itemsets after lines 423-424.
itemset_row(orders, itemset, order) ==
    LET itemsets == Join(ListOf(itemset, order), Separator)
    IN  [support |-> SupportCount(orders, itemset),
         itemsets |-> itemsets,
         length |-> Len(Split(itemsets, Separator))]

\* The table of lines 428-432: the rows of length > 1 by falling support.
product_combinations(orders, min_support, order) ==
    LET rows == {itemset_row(orders, x, order) : x \in apriori(orders, min_support)}
        shown == {r \in rows : r.length > 1}
    IN  SortedSeq(shown, {k \in shown \X shown : k[1].support >= k[2].support})

\* The orders in which the elements of a set can be iterated.
IterationOrders(S) ==
    {o \in [1..Cardinality(S) -> S] : \A x \in S : \E k \in DOMAIN o : o[k] = x}

Catalogues == {c \in {{x, y} : x, y \in ProductNames} : Cardinality(c) = 2}

InitCombo ==
    /\ InitSessionIdle
    /\ \E c \in Catalogues :
         df \in UNION {[1..n -> (SUBSET c) \ {{}}] : n \in 1..MaxOrders}
    /\ selected = [min_support |-> 0, order |-> <<>>]
    /\ result = <<>>

MinSupports == {1, 20}

\* The user sets the minimum support; the view is computed.
ProductCombinations ==
    /\ \E min_support \in MinSupports :
       \E order \in IterationOrders(UNION {df[i] : i \in DOMAIN df}) :
         /\ selected' = [min_support |-> min_support, order |-> order]
         /\ result' = product_combinations(df, min_support, order)
    /\ UNCHANGED df
    /\ UNCHANGED sessionVars

SpecCombo == InitCombo /\ [][ProductCombinations]_vars

\* The table the claim describes: the mined itemsets of more than one
\* product, each with its number of products.
ExpectedCombinations(orders, min_support, order) ==
    {[support |-> SupportCount(orders, x),
      itemsets |-> Join(ListOf(x, order), Separator),
      length |-> Cardinality(x)] :
        x \in {y \in apriori(orders, min_support) : Cardinality(y) > 1}}

\* C9: the displayed rows are exactly the mined itemsets of more than one
\* product, each with its true number of products, by falling support.
CombinationsTable ==
    selected.min_support > 0 =>
        /\ {result[k] : k \in DOMAIN result}
             = ExpectedCombinations(df, selected.min_support, selected.order)
        /\ \A j, k \in DOMAIN result :
             j < k => result[j].support >= result[k].support

\* The same for product names that do not contain the separator.
CombinationsTablePlainNames ==
    (selected.min_support > 0
     /\ \A i \in DOMAIN df : \A name \in df[i] :
            Len(Split(name, Separator)) = 1) =>
        /\ {result[k] : k \in DOMAIN result}
             = ExpectedCombinations(df, selected.min_support, selected.order)
        /\ \A j, k \in DOMAIN result :
             j < k => result[j].support >= result[k].support

====
